---- MODULE Spec2Model ----
(***************************************************************************)
(* BruinKart: the GUI controller's game-mode state machine (controller.js), *)
(* its Timer, its best times and ghost traces, the kart kinematics          *)
(* (kart.js) and the checkpoint tracker (main.js), as state machines.       *)
(*                                                                          *)
(* Units.  Clock values are milliseconds (Date.now()); GetTime is the       *)
(* millisecond count that Timer.getTime() divides by 1000.  Velocities are  *)
(* integers counting 1/(100*VelScale); turn rates count pi/AngleDen; dt     *)
(* counts 1/20 s and headings count pi/(20*AngleDen).                       *)
(***************************************************************************)
EXTENDS Integers, Sequences, FiniteSets, TLC

\* ------------------------------------------------------------------ bounds
\* Latest clock value explored.
MaxNow == 1
\* Number of races (initGame calls) explored.
MaxRaces == 1
\* Laps explored per race.
MaxLaps == 1
\* High-speed collision responses explored per run (each divides by 5).
MaxCollisions == 1
\* Static obstacles in bodies[1..].
NumObstacles == 2
\* Latest clock value explored for a Timer on its own.
MaxClock == 5
\* Milliseconds between two clock readings of the runs that time their laps.
FrameMs == 60
\* Accelerations' worth of speed up to which the runs among obstacles go on.
MaxThrottle == 3

\* --------------------------------------------------------------- constants
\* createCounter(3, ...)
CountdownSeconds == 3
\* initDefaultCheckpoints / initClassicCheckpoints add four checkpoints
NumCheckpoints == 4
\* key codes
KeyI == 73
KeyJ == 74
KeyK == 75
KeyL == 76

VARIABLES
    state,            \* GUIController.state: "initial" | "playing" | "paused"
    kartEnabled,      \* BruinKart.kartEnabled
    worldReady,       \* GUIController.worldReady
    loading,          \* initGame is suspended at `await this.parent.loadWorld`
    timer,            \* GUIController.timer (a Timer)
    now,              \* Date.now()
    counters,         \* the setInterval countdowns created by createCounter
    listeners,        \* GUIController.listeners (by name)
    registered,       \* the keydown listeners registered on the document
    shapes,           \* GUIController.shapes (by name)
    selectedKart,     \* GUIController.selectedKart
    selectedMap,      \* GUIController.selectedMap
    checkpointIndex,  \* BruinKart.checkpointIndex
    laps,             \* BruinKart.laps
    ctrlLaps,         \* GUIController.laps
    checks,           \* GUIController.checks
    kart,             \* BruinKart.kart: kartType, velocity, deltaAngle, angle; push is
                      \* how far along its heading handleCollisions last moved the body
    keys,             \* the global keys map of kart.js: the key codes held
    races,            \* history: number of initGame calls
    lastOverlap,      \* history: checkpoints overlapped when handleCheckpoints last ran
    ranMs,            \* history: running (unpaused) time since the last resetTime
    wantPaused,       \* history: whether the last Timer call asked for a pause
    idleTicks,        \* history: consecutive ticks with no turn key and no collision
    bumps,            \* history: collision responses used up
    ghost,            \* GUIController: bestTime, pastGhost, currentGhost, lastGhostTime,
                      \* memory, options; BruinKart.ghostPos
    storage,          \* localStorage's "memory" item
    peer,             \* this.memory of a second session on the same localStorage
    lapDone,          \* history: how often updateStatus took its lap-completed branch,
                      \* and what it left behind when a lap was last completed
    raceHist,         \* history: the best time initGame loaded, the lap times since
    escIgnored        \* history: the last step was an Escape press pauseGame ignored

vars == <<state, kartEnabled, worldReady, loading, timer, now, counters, listeners,
          registered, shapes, selectedKart, selectedMap, checkpointIndex, laps, ctrlLaps,
          checks, kart, keys, races, lastOverlap, ranMs, wantPaused, idleTicks, bumps,
          ghost, storage, peer, lapDone, raceHist, escIgnored>>

ctrlVars == <<state, kartEnabled, worldReady, loading, counters, listeners, registered, shapes,
              selectedKart, selectedMap, races>>
progressVars == <<checkpointIndex, laps, ctrlLaps, checks>>
timerHist == <<ranMs, wantPaused>>
kartHist == <<idleTicks, bumps>>
ghostVars == <<ghost, storage, peer>>
ghostHist == <<lapDone, raceHist>>

\* ------------------------------------------------------------------- Timer
\* pauseStart = null
NullTime == 0 - 1

\* Timer.resetTime at clock value t
ResetTime(t) ==
    [startTime |-> t, totalPausedMilliseconds |-> 0, pauseStart |-> NullTime,
     state |-> "play"]

\* Timer.pause without its early return: a second pause() restarts the pause
TimerPauseAgain(tm, t) == [tm EXCEPT !.pauseStart = t, !.state = "pause"]

\* Timer.pause at clock value t
TimerPause(tm, t) ==
    IF tm.state = "pause" THEN tm
    ELSE [tm EXCEPT !.pauseStart = t, !.state = "pause"]

\* Timer.unpause at clock value t
TimerUnpause(tm, t) ==
    IF tm.state = "play" THEN tm
    ELSE [tm EXCEPT !.totalPausedMilliseconds = @ + (t - tm.pauseStart),
                    !.pauseStart = NullTime, !.state = "play"]

\* Timer.getTime at clock value t, in milliseconds (the code returns ms / 1000)
GetTime(tm, t) ==
    IF tm.state = "pause"
    THEN tm.pauseStart - tm.startTime - tm.totalPausedMilliseconds
    ELSE t - tm.startTime - tm.totalPausedMilliseconds

\* -------------------------------------------------------------------- Kart
Abs(x) == IF x < 0 THEN 0 - x ELSE x
Min(a, b) == IF a < b THEN a ELSE b
Max(a, b) == IF a > b THEN a ELSE b

RECURSIVE Pow(_, _)
Pow(b, e) == IF e = 0 THEN 1 ELSE b * Pow(b, e - 1)

\* Velocities count 1/(100*VelScale): every collision response divides by 5.
VelScale == Pow(5, MaxCollisions)
\* Turn rates count pi/AngleDen: 512, 700, 128, 90 and 8 all divide it.
AngleDen == 512 * 1575
\* 2*pi in heading units of pi/(20*AngleDen)
TwoPi == 2 * 20 * AngleDen

KartTypes == {"BruinKart", "Clown", "Toad"}
MapTypes == {"default", "classic"}

\* Kart constructor defaults and setParams, per kart type
maxVelocityF(kt) ==
    (CASE kt = "Clown" -> 30 [] kt = "Toad" -> 10 [] OTHER -> 15) * 100 * VelScale
maxVelocityB(kt) ==
    (0 - (CASE kt = "Clown" -> 10 [] kt = "Toad" -> 3 [] OTHER -> 7)) * 100 * VelScale
acceleration(kt) ==
    (CASE kt = "Clown" -> 2 [] kt = "Toad" -> 10 [] OTHER -> 4) * VelScale
slowDownSpeed == 1 * VelScale
maxDeltaAngle == AngleDen \div 8
shortDeltaAngle(kt) ==
    AngleDen \div (CASE kt = "Clown" -> 700 [] kt = "Toad" -> 90 [] OTHER -> 128)
slowDownAngle == AngleDen \div 512

\* new Kart(game, kartType, worldType): the per-frame parameters
NewKart(kt) == [kartType |-> kt, velocity |-> 0, deltaAngle |-> 0, angle |-> 0, push |-> 0]

\* JavaScript's %: the result takes the sign of the dividend
JsRem(a, b) == IF a >= 0 THEN a % b ELSE 0 - ((0 - a) % b)

\* Kart.updateUserInput: the velocity part
InputVelocity(k, ks) ==
    IF KeyI \in ks THEN Min(k.velocity + acceleration(k.kartType), maxVelocityF(k.kartType))
    ELSE IF KeyK \in ks
         THEN Max(k.velocity - acceleration(k.kartType), maxVelocityB(k.kartType))
         ELSE k.velocity + (IF k.velocity > 0 THEN 0 - slowDownSpeed ELSE slowDownSpeed)

\* the turn-rate part without the snap to zero (the straightening effect alone)
InputDeltaAngleNoSnap(k, ks) ==
    IF KeyJ \in ks THEN Min(maxDeltaAngle, k.deltaAngle + shortDeltaAngle(k.kartType))
    ELSE IF KeyL \in ks
         THEN Max(0 - maxDeltaAngle, k.deltaAngle - shortDeltaAngle(k.kartType))
         ELSE k.deltaAngle
              + (IF k.deltaAngle > 0 THEN 0 - slowDownAngle ELSE slowDownAngle)

\* Kart.updateUserInput: the turn-rate part
InputDeltaAngle(k, ks) ==
    IF KeyJ \in ks THEN Min(maxDeltaAngle, k.deltaAngle + shortDeltaAngle(k.kartType))
    ELSE IF KeyL \in ks
         THEN Max(0 - maxDeltaAngle, k.deltaAngle - shortDeltaAngle(k.kartType))
         ELSE IF Abs(k.deltaAngle) < slowDownAngle THEN 0
              ELSE k.deltaAngle
                   + (IF k.deltaAngle > 0 THEN 0 - slowDownAngle ELSE slowDownAngle)

\* Kart.updateUserInput
UpdateUserInput(k, ks) ==
    [k EXCEPT !.velocity = InputVelocity(k, ks), !.deltaAngle = InputDeltaAngle(k, ks)]

\* Kart.update: this.angle += dt * this.deltaAngle; this.angle %= 2 * Math.PI
Rotate(k, dt) == [k EXCEPT !.angle = JsRem(k.angle + dt * k.deltaAngle, TwoPi)]

\* What check_if_colliding answers for one obstacle: "miss", "hit" (overlap, none
\* after the push-back) or "stuck" (overlap before and after the push-back).
HitOutcomes == {"miss", "hit", "stuck"}
HitSeqs == [1..NumObstacles -> HitOutcomes]
NoHits == [i \in 1..NumObstacles |-> "miss"]
CountHits(hits) == Cardinality({i \in 1..NumObstacles : hits[i] # "miss"})

\* Z_PUSH = val / 5 with val = 2 * velocity
ZPush(k) == (2 * k.velocity) \div 5

\* the response without the second translation for bodies that still overlap
BounceOnePush(k, outcome) ==
    [k EXCEPT !.push = k.push - ZPush(k), !.velocity = (0 - 2 * k.velocity) \div 5]

\* Kart.handleCollisions, the response to one overlapping obstacle at speed
\* >= 10 * slowDownSpeed: translation(0, 0, -Z_PUSH); when the bodies still
\* overlap, translation(0, 0, 2 * Z_PUSH); velocity = -val / 5
Bounce(k, outcome) ==
    [k EXCEPT !.push = k.push - ZPush(k) + (IF outcome = "stuck" THEN 2 * ZPush(k) ELSE 0),
              !.velocity = (0 - 2 * k.velocity) \div 5]

\* the loop with a low-speed branch that also stops the kart
RECURSIVE CollideAndStop(_, _, _)
CollideAndStop(k, hits, i) ==
    IF i > NumObstacles THEN k
    ELSE IF hits[i] = "miss" THEN CollideAndStop(k, hits, i + 1)
    ELSE IF Abs(k.velocity) < 10 * slowDownSpeed
         THEN [k EXCEPT !.deltaAngle = 0 - k.deltaAngle, !.velocity = 0]
         ELSE CollideAndStop(Bounce(k, hits[i]), hits, i + 1)

\* Kart.handleCollisions: the loop over bodies[1..], from obstacle i on
RECURSIVE Collide(_, _, _)
Collide(k, hits, i) ==
    IF i > NumObstacles THEN k
    ELSE IF hits[i] = "miss" THEN Collide(k, hits, i + 1)
    ELSE IF Abs(k.velocity) < 10 * slowDownSpeed
         THEN [k EXCEPT !.deltaAngle = 0 - k.deltaAngle]
         ELSE Collide(Bounce(k, hits[i]), hits, i + 1)

\* Kart.handleCollisions
HandleCollisions(k, hits) == Collide([k EXCEPT !.push = 0], hits, 1)

\* Kart.update(dt)
KartUpdate(k, ks, dt, hits) == HandleCollisions(Rotate(UpdateUserInput(k, ks), dt), hits)

\* N = ceil(maxDeltaAngle / slowDownAngle)
DecayTicks == (maxDeltaAngle + slowDownAngle - 1) \div slowDownAngle

\* ------------------------------------------------- best times and ghost traces
\* Times are milliseconds, as in GetTime.  A trace maps a time key, the tenths
\* of a second that toFixed(1) prints, to the sample getLoc() gave; a sample is
\* known by the race (the initGame call) it was taken in.  The memory object
\* maps <<kart, world>> to a record [bestTime, ghost].
Infinity == 0 - 1
\* null, as JSON.parse gives back for a number JSON cannot write
JsNull == 0 - 2
\* BruinKart.ghostPos = null
NullPos == 0 - 1
\* lastGhostTime = -1 (seconds), in tenths
NoGhostTime == 0 - 10
\* the empty object {}
EmptyObj == << >>

\* the comparison with <= for <
LessOrEqual(a, b) == IF b = Infinity THEN TRUE ELSE IF b = JsNull THEN a <= 0 ELSE a <= b

\* JavaScript's a < b for a finite a: Infinity is above everything, null counts as 0
LessThan(a, b) == IF b = Infinity THEN TRUE ELSE IF b = JsNull THEN a < 0 ELSE a < b

\* getTime().toFixed(1) for a time of ms milliseconds: the nearest tenth of a second
Tenths(ms) == (ms + 50) \div 100

\* loadTimes leaving bestTime and pastGhost alone
LoadTimesKeepRecord(g) == [g EXCEPT !.lastGhostTime = NoGhostTime]

\* GUIController.loadTimes
LoadTimes(g) ==
    [g EXCEPT !.bestTime = Infinity, !.pastGhost = EmptyObj, !.lastGhostTime = NoGhostTime]

\* history: no lap completed yet; no record loaded and no lap timed yet
NoLapDone ==
    [events |-> 0, running |-> TRUE, time |-> 0, trace |-> EmptyObj,
     ghostTime |-> NoGhostTime]
NoRace == [loaded |-> Infinity, fastest |-> Infinity]

\* the constructor's fields
NewGhost ==
    [bestTime |-> Infinity, pastGhost |-> EmptyObj, currentGhost |-> EmptyObj,
     lastGhostTime |-> NoGhostTime, memory |-> EmptyObj,
     options |-> [kart |-> "BruinKart", world |-> "default"], ghostPos |-> NullPos]

\* localStorage.getItem("memory"): nothing stored, a string JSON.parse rejects,
\* or the string JSON.stringify wrote for a memory object
Absent == [kind |-> "absent", value |-> EmptyObj]
Corrupt == [kind |-> "corrupt", value |-> EmptyObj]

\* JSON.stringify writes null for a number that is not finite
JsonNumber(x) == IF x = Infinity THEN JsNull ELSE x

\* GUIController.saveMemory: localStorage.setItem("memory", JSON.stringify(memory))
Stringify(mem) ==
    [kind |-> "json",
     value |-> [p \in DOMAIN mem |-> [bestTime |-> JsonNumber(mem[p].bestTime),
                                       ghost |-> mem[p].ghost]]]

\* loadMemory without its `|| {}`: nothing stored fails as well
ParseThrowsOnNull(st) == st.kind # "json"

\* JSON.parse throws a SyntaxError
ParseThrows(st) == st.kind = "corrupt"

\* GUIController.loadMemory: JSON.parse(localStorage.getItem("memory")) || {}
LoadMemory(st) == IF st.kind = "json" THEN st.value ELSE EmptyObj

\* initGame: Object.keys(memory).includes(kart) && Object.keys(memory[kart]).includes(map)
HasRecord(mem, kt, mp) == <<kt, mp>> \in DOMAIN mem

\* initGame: ghostVals = this.memory[this.selectedKart][this.selectedMap]
RecordOf(mem, kt, mp) == mem[<<kt, mp>>]

\* initGame after loadMemory: bestTime and pastGhost from the selected pair's record
LoadRecord(g, kt, mp) ==
    IF HasRecord(g.memory, kt, mp)
    THEN [g EXCEPT !.bestTime = RecordOf(g.memory, kt, mp).bestTime,
                   !.pastGhost = RecordOf(g.memory, kt, mp).ghost]
    ELSE g

\* the test with >= for >
LapCompletedOrSame(lp, cl) == lp >= cl

\* updateStatus: laps > this.laps, the kart has just completed a lap
LapCompleted(lp, cl) == lp > cl

\* updateStatus resetting the timer and the trace only when the lap set a record
UpdateStatusOnRecord(c, lp, cl, t) ==
    IF LapCompleted(lp, cl) /\ LessThan(GetTime(c.timer, t), c.ghost.bestTime)
    THEN LET lapTime == GetTime(c.timer, t)
             opts == c.ghost.options
             mem == (<<opts.kart, opts.world>> :>
                        [bestTime |-> lapTime, ghost |-> c.ghost.currentGhost])
                    @@ c.ghost.memory
         IN [ghost |-> [c.ghost EXCEPT !.bestTime = lapTime,
                                       !.pastGhost = c.ghost.currentGhost,
                                       !.memory = mem,
                                       !.currentGhost = EmptyObj,
                                       !.lastGhostTime = NoGhostTime],
             storage |-> Stringify(mem),
             timer |-> ResetTime(t)]
    ELSE c

\* updateStatus saving the new record alone
UpdateStatusAlone(c, lp, cl, t) ==
    IF LapCompleted(lp, cl)
    THEN LET lapTime == GetTime(c.timer, t)
             record == LessThan(lapTime, c.ghost.bestTime)
             opts == c.ghost.options
             mem == IF record
                    THEN (<<opts.kart, opts.world>> :>
                             [bestTime |-> lapTime, ghost |-> c.ghost.currentGhost])
                    ELSE c.ghost.memory
         IN [ghost |-> [c.ghost EXCEPT !.bestTime = IF record THEN lapTime ELSE @,
                                       !.pastGhost = IF record THEN c.ghost.currentGhost
                                                     ELSE @,
                                       !.memory = mem,
                                       !.currentGhost = EmptyObj,
                                       !.lastGhostTime = NoGhostTime],
             storage |-> IF record THEN Stringify(mem) ELSE c.storage,
             timer |-> ResetTime(t)]
    ELSE c

\* GUIController.updateStatus(checkIndex, laps), the part on the timer, the best
\* time and the ghosts: c holds ghost, storage and timer, lp is the laps
\* argument, cl is this.laps and t the clock
UpdateStatus(c, lp, cl, t) ==
    IF LapCompleted(lp, cl)
    THEN LET lapTime == GetTime(c.timer, t)
             record == LessThan(lapTime, c.ghost.bestTime)
             opts == c.ghost.options
             mem == IF record
                    THEN (<<opts.kart, opts.world>> :>
                             [bestTime |-> lapTime, ghost |-> c.ghost.currentGhost])
                         @@ c.ghost.memory
                    ELSE c.ghost.memory
         IN [ghost |-> [c.ghost EXCEPT !.bestTime = IF record THEN lapTime ELSE @,
                                       !.pastGhost = IF record THEN c.ghost.currentGhost
                                                     ELSE @,
                                       !.memory = mem,
                                       !.currentGhost = EmptyObj,
                                       !.lastGhostTime = NoGhostTime],
             storage |-> IF record THEN Stringify(mem) ELSE c.storage,
             timer |-> ResetTime(t)]
    ELSE c

\* handlePlayState looking its ghost up in the trace being recorded
HandlePlayStateOwnTrace(g, st, tm, t, loc) ==
    IF st # "playing" THEN g
    ELSE LET time == Tenths(GetTime(tm, t))
             g1 == IF time - g.lastGhostTime > 0
                   THEN [g EXCEPT !.currentGhost = (time :> loc) @@ @,
                                  !.lastGhostTime = time]
                   ELSE g
         IN IF time \in DOMAIN g1.currentGhost
            THEN [g1 EXCEPT !.ghostPos = g1.currentGhost[time]]
            ELSE g1

\* handlePlayState storing a sample without remembering its time
HandlePlayStateUnmarked(g, st, tm, t, loc) ==
    IF st # "playing" THEN g
    ELSE LET time == Tenths(GetTime(tm, t))
             g1 == IF time - g.lastGhostTime > 0
                   THEN [g EXCEPT !.currentGhost = (time :> loc) @@ @]
                   ELSE g
         IN IF time \in DOMAIN g1.pastGhost
            THEN [g1 EXCEPT !.ghostPos = g1.pastGhost[time]]
            ELSE g1

\* handlePlayState showing the kart's own pose at a time the record holds no
\* sample for
HandlePlayStateShowsKart(g, st, tm, t, loc) ==
    IF st # "playing" THEN g
    ELSE LET time == Tenths(GetTime(tm, t))
             g1 == IF time - g.lastGhostTime > 0
                   THEN [g EXCEPT !.currentGhost = (time :> loc) @@ @,
                                  !.lastGhostTime = time]
                   ELSE g
         IN IF time \in DOMAIN g1.pastGhost
            THEN [g1 EXCEPT !.ghostPos = g1.pastGhost[time]]
            ELSE [g1 EXCEPT !.ghostPos = loc]

\* GUIController.handlePlayState, the part on the ghosts: st is the state, tm the
\* timer, t the clock and loc what kart.getLoc() gives
HandlePlayState(g, st, tm, t, loc) ==
    IF st # "playing" THEN g
    ELSE LET time == Tenths(GetTime(tm, t))
             g1 == IF time - g.lastGhostTime > 0
                   THEN [g EXCEPT !.currentGhost = (time :> loc) @@ @,
                                  !.lastGhostTime = time]
                   ELSE g
         IN IF time \in DOMAIN g1.pastGhost
            THEN [g1 EXCEPT !.ghostPos = g1.pastGhost[time]]
            ELSE g1

\* GUIController.handle: nothing before the world is ready
Handle(g, ready, st, tm, t, loc) ==
    IF ~ready THEN g ELSE HandlePlayState(g, st, tm, t, loc)

\* ------------------------------------------------------------ GUIController
MenuListeners == {"esc", "play", "kart", "map"}

\* the shapes initMenu builds, those initGame pushes and those pauseGame overlays
MenuShapes ==
    <<"Background Cube", "Welcome Title", "Play Option", "Kart Option", "Kart String",
      "Map Option", "Map String">>
HudShapes == <<"TIME", "BESTTIME", "LAPS", "CHECKS", "COUNTER">>
PauseShapes == <<"Background Cube", "Pause Title", "Exit Prompt", "Escape/Unpause Prompt">>

\* this.shapes.splice(this.shapes.length - n, n): the last n shapes go (all of
\* them when there are fewer)
Splice(sh, n) == SubSeq(sh, 1, Max(Len(sh) - n, 0))

\* history: a listener of the controller ran while these countdowns were live
Interrupt(cs) ==
    [i \in 1..Len(cs) |-> IF cs[i].live THEN [cs[i] EXCEPT !.interrupted = TRUE] ELSE cs[i]]

\* GUIController.createCounter(seconds, callback): the pending interval
NewCounter(seconds) ==
    [seconds |-> seconds, live |-> TRUE, fired |-> 0, calls |-> 0, interrupted |-> FALSE]

\* GUIController.initMenu: state, reset(), timer.pause(), disableKart(), the menu's
\* listeners pushed and activated
InitMenu(reg) ==
    /\ state' = "initial"
    /\ timer' = TimerPause(ResetTime(now), now)
    /\ kartEnabled' = FALSE
    /\ listeners' = MenuListeners
    /\ registered' = (reg \ listeners) \cup MenuListeners
    /\ shapes' = MenuShapes
    /\ ghost' = LoadTimes(ghost)

\* GUIController.nextKart
NextKartOf(kt) == IF kt = "BruinKart" THEN "Clown" ELSE IF kt = "Clown" THEN "Toad" ELSE "BruinKart"

\* GUIController.nextMap
NextMapOf(m) == IF m = "default" THEN "classic" ELSE "default"

\* keydown K with the menu's kart listener registered: nextKart
PressK ==
    /\ "kart" \in registered
    /\ selectedKart' = NextKartOf(selectedKart)
    /\ ghost' = [ghost EXCEPT !.options.kart = NextKartOf(selectedKart)]
    /\ escIgnored' = FALSE
    /\ UNCHANGED <<state, kartEnabled, worldReady, loading, timer, now, counters, listeners,
                   registered, shapes, selectedMap, races, progressVars, lastOverlap, kart, keys,
                   timerHist, kartHist, storage, peer, ghostHist>>

\* nextMap without its update of options.world
PressMKeepsOptions ==
    /\ "map" \in registered
    /\ selectedMap' = NextMapOf(selectedMap)
    /\ escIgnored' = FALSE
    /\ UNCHANGED <<state, kartEnabled, worldReady, loading, timer, now, counters, listeners,
                   registered, shapes, selectedKart, races, progressVars, lastOverlap, kart, keys,
                   timerHist, kartHist, ghostVars, ghostHist>>

\* keydown M with the menu's map listener registered: nextMap
PressM ==
    /\ "map" \in registered
    /\ selectedMap' = NextMapOf(selectedMap)
    /\ ghost' = [ghost EXCEPT !.options.world = NextMapOf(selectedMap)]
    /\ escIgnored' = FALSE
    /\ UNCHANGED <<state, kartEnabled, worldReady, loading, timer, now, counters, listeners,
                   registered, shapes, selectedKart, races, progressVars, lastOverlap, kart, keys,
                   timerHist, kartHist, storage, peer, ghostHist>>

\* keydown P with the menu's play listener registered: initGame up to its await
\* (reset with its loadTimes, timer.pause, resetKart, worldReady = false,
\* enableKart, and the synchronous part of loadWorld: ghostPos = null and
\* setupCheckpoints)
PressP ==
    /\ "play" \in registered
    /\ races < MaxRaces
    /\ races' = races + 1
    /\ state' = "playing"
    /\ registered' = registered \ listeners
    /\ shapes' = << >>
    /\ listeners' = {"esc"}
    /\ timer' = TimerPause(ResetTime(now), now)
    /\ kart' = NewKart(selectedKart)
    /\ worldReady' = FALSE
    /\ kartEnabled' = TRUE
    /\ checkpointIndex' = 0
    /\ laps' = 0
    /\ loading' = TRUE
    /\ counters' = Interrupt(counters)
    /\ ghost' = [LoadTimes(ghost) EXCEPT !.ghostPos = NullPos]
    /\ escIgnored' = FALSE
    /\ UNCHANGED <<now, selectedKart, selectedMap, ctrlLaps, checks, lastOverlap, keys,
                   timerHist, kartHist, storage, peer, ghostHist>>

\* loadWorld's delay resolves: initGame after its await (worldReady = true,
\* disableKart, loadMemory and the selected pair's record, the HUD and
\* createCounter(3, ...), activateListeners); when JSON.parse throws in
\* loadMemory, initGame ends there
LoadDone ==
    /\ loading
    /\ loading' = FALSE
    /\ worldReady' = TRUE
    /\ kartEnabled' = FALSE
    /\ IF ParseThrows(storage)
       THEN UNCHANGED <<counters, registered, shapes, ghost, raceHist>>
       ELSE /\ ghost' = LoadRecord([ghost EXCEPT !.memory = LoadMemory(storage)],
                                   selectedKart, selectedMap)
            /\ raceHist' = [loaded |-> ghost'.bestTime, fastest |-> Infinity]
            /\ counters' = Append(counters, NewCounter(CountdownSeconds))
            /\ registered' = registered \cup listeners
            /\ shapes' = shapes \o HudShapes
    /\ escIgnored' = FALSE
    /\ UNCHANGED <<state, timer, now, listeners, selectedKart, selectedMap, races,
                   progressVars, lastOverlap, kart, keys, timerHist, kartHist, storage, peer,
                   lapDone>>

\* the interval callback with `seconds < 0` for `seconds <= 0`
CounterTickLate(i) ==
    /\ i \in 1..Len(counters)
    /\ counters[i].live
    /\ LET done == counters[i].seconds - 1 < 0 IN
       /\ counters' = [counters EXCEPT ![i].seconds = @ - 1,
                                       ![i].fired = @ + 1,
                                       ![i].live = ~done,
                                       ![i].calls = IF done THEN @ + 1 ELSE @]
       /\ kartEnabled' = done
       /\ timer' = IF done THEN ResetTime(now) ELSE timer
    /\ escIgnored' = FALSE
    /\ UNCHANGED <<state, worldReady, loading, now, listeners, registered, shapes, selectedKart,
                   selectedMap, races, progressVars, lastOverlap, kart, keys, timerHist,
                   kartHist, ghostVars, ghostHist>>

\* The interval callback of countdown i (createCounter's setInterval) fires:
\* disableKart, seconds -= 1, and at seconds <= 0 clearInterval and the callback
\* initGame passed (enableKart, timer.resetTime)
CounterTick(i) ==
    /\ i \in 1..Len(counters)
    /\ counters[i].live
    /\ LET done == counters[i].seconds - 1 <= 0 IN
       /\ counters' = [counters EXCEPT ![i].seconds = @ - 1,
                                       ![i].fired = @ + 1,
                                       ![i].live = ~done,
                                       ![i].calls = IF done THEN @ + 1 ELSE @]
       /\ kartEnabled' = done
       /\ timer' = IF done THEN ResetTime(now) ELSE timer
    /\ escIgnored' = FALSE
    /\ UNCHANGED <<state, worldReady, loading, now, listeners, registered, shapes, selectedKart,
                   selectedMap, races, progressVars, lastOverlap, kart, keys, timerHist,
                   kartHist, ghostVars, ghostHist>>

\* pauseGame without its early return for the menu
PauseGameAnywhere ==
    IF state = "paused"
    THEN /\ registered' = registered \ {"exit"}
         /\ shapes' = Splice(shapes, Len(PauseShapes))
         /\ state' = "playing"
         /\ kartEnabled' = TRUE
         /\ timer' = TimerUnpause(timer, now)
         /\ counters' = Interrupt(counters)
         /\ escIgnored' = FALSE
    ELSE /\ kartEnabled' = FALSE
         /\ timer' = TimerPause(timer, now)
         /\ registered' = registered \cup {"exit"}
         /\ shapes' = shapes \o PauseShapes
         /\ state' = "paused"
         /\ counters' = Interrupt(counters)
         /\ escIgnored' = FALSE

\* pauseGame leaving the pause without removing its exit listener
PauseGameKeepsExit ==
    IF state = "initial"
    THEN /\ UNCHANGED <<state, kartEnabled, timer, registered, shapes, counters>>
         /\ escIgnored' = TRUE
    ELSE IF state = "paused"
    THEN /\ registered' = registered
         /\ shapes' = Splice(shapes, Len(PauseShapes))
         /\ state' = "playing"
         /\ kartEnabled' = TRUE
         /\ timer' = TimerUnpause(timer, now)
         /\ counters' = Interrupt(counters)
         /\ escIgnored' = FALSE
    ELSE /\ kartEnabled' = FALSE
         /\ timer' = TimerPause(timer, now)
         /\ registered' = registered \cup {"exit"}
         /\ shapes' = shapes \o PauseShapes
         /\ state' = "paused"
         /\ counters' = Interrupt(counters)
         /\ escIgnored' = FALSE

\* GUIController.pauseGame
PauseGame ==
    IF state = "initial"
    THEN /\ UNCHANGED <<state, kartEnabled, timer, registered, shapes, counters>>
         /\ escIgnored' = TRUE
    ELSE IF state = "paused"
    THEN /\ registered' = registered \ {"exit"}
         /\ shapes' = Splice(shapes, Len(PauseShapes))
         /\ state' = "playing"
         /\ kartEnabled' = TRUE
         /\ timer' = TimerUnpause(timer, now)
         /\ counters' = Interrupt(counters)
         /\ escIgnored' = FALSE
    ELSE /\ kartEnabled' = FALSE
         /\ timer' = TimerPause(timer, now)
         /\ registered' = registered \cup {"exit"}
         /\ shapes' = shapes \o PauseShapes
         /\ state' = "paused"
         /\ counters' = Interrupt(counters)
         /\ escIgnored' = FALSE

\* keydown Escape: the Escape listener, when registered, calls pauseGame
PressEsc ==
    /\ IF "esc" \in registered THEN PauseGame
       ELSE UNCHANGED <<state, kartEnabled, timer, registered, shapes, counters>>
            /\ escIgnored' = FALSE
    /\ UNCHANGED <<worldReady, loading, now, listeners, selectedKart, selectedMap, races,
                   progressVars, lastOverlap, kart, keys, timerHist, kartHist, ghostVars,
                   ghostHist>>

\* the exit listener answering E in whatever state the controller is in
PressEAnywhere ==
    /\ InitMenu(registered \ {"exit"}) /\ counters' = Interrupt(counters)
    /\ escIgnored' = FALSE
    /\ UNCHANGED <<worldReady, loading, now, selectedKart, selectedMap, races,
                   progressVars, lastOverlap, kart, keys, timerHist, kartHist, storage, peer,
                   ghostHist>>

\* keydown E: the pause menu's exit listener, when registered, removes itself and
\* calls initMenu
PressE ==
    /\ IF "exit" \in registered
       THEN InitMenu(registered \ {"exit"}) /\ counters' = Interrupt(counters)
       ELSE UNCHANGED <<state, kartEnabled, timer, registered, shapes, listeners, counters,
                        ghost>>
    /\ escIgnored' = FALSE
    /\ UNCHANGED <<worldReady, loading, now, selectedKart, selectedMap, races,
                   progressVars, lastOverlap, kart, keys, timerHist, kartHist, storage, peer,
                   ghostHist>>

\* Date.now() moves on by d
ClockStep(d) ==
    /\ now' = now + d
    /\ escIgnored' = FALSE
    /\ UNCHANGED <<ctrlVars, timer, progressVars, kart, keys, timerHist, kartHist,
                   ghostVars, ghostHist>>

\* Date.now() moves on by d, up to MaxNow
Advance(d) == now + d <= MaxNow /\ ClockStep(d)

\* the clock of the game moves on
GameAdvance(d) == Advance(d) /\ UNCHANGED lastOverlap

\* ------------------------------------------------------- per-frame update
Checkpoints == 0..(NumCheckpoints - 1)

\* The checkpoint volumes lie far apart on both tracks: the kart's body overlaps
\* none of them or one of them in a frame.
Overlaps == {{}} \cup {{c} : c \in Checkpoints}

\* the test made against every checkpoint instead of the current one
CheckpointHitAny(idx, overlap) == overlap # {}

\* BruinKart.handleCheckpoints: check_if_colliding against checkpoints[checkpointIndex];
\* overlap is the set of checkpoint volumes the kart's body overlaps this frame
CheckpointHit(idx, overlap) == idx \in overlap

\* BruinKart.handleCheckpoints: the index after the test, before the lap test
AdvancedIndex(idx, overlap) == IF CheckpointHit(idx, overlap) THEN idx + 1 ELSE idx

\* the lap test with > for ==
LapDoneLate(idx, overlap) == AdvancedIndex(idx, overlap) > NumCheckpoints

\* BruinKart.handleCheckpoints: a lap has been completed
LapDone(idx, overlap) == AdvancedIndex(idx, overlap) = NumCheckpoints

\* number of Bounce responses handleCollisions applies, from obstacle i on
RECURSIVE BounceCount(_, _, _)
BounceCount(k, hits, i) ==
    IF i > NumObstacles THEN 0
    ELSE IF hits[i] = "miss" THEN BounceCount(k, hits, i + 1)
    ELSE IF Abs(k.velocity) < 10 * slowDownSpeed THEN 0
         ELSE 1 + BounceCount(Bounce(k, hits[i]), hits, i + 1)

\* the Bounce responses of one Kart.update
Bounces(k, ks, dt, hits) == BounceCount(Rotate(UpdateUserInput(k, ks), dt), hits, 1)

\* BruinKart.handleCheckpoints and the updateStatus it calls: the index and the
\* laps they leave, whether updateStatus took its lap-completed branch, and the
\* ghost, storage and timer it leaves
Checked(overlap) ==
    LET done == LapDone(checkpointIndex, overlap)
        idx == IF done THEN 0 ELSE AdvancedIndex(checkpointIndex, overlap)
        lp == IF done THEN laps + 1 ELSE laps
    IN [index |-> idx, laps |-> lp, taken |-> LapCompleted(lp, ctrlLaps),
        ctl |-> UpdateStatus([ghost |-> ghost, storage |-> storage, timer |-> timer],
                             lp, ctrlLaps, now)]

\* the smaller of two times, Infinity being no time
MinTime(a, b) == IF a = Infinity THEN b ELSE IF b = Infinity THEN a ELSE Min(a, b)

\* BruinKart.handleCheckpoints followed by GUIController.updateStatus, with the
\* histories of the laps
HandleCheckpoints(overlap) ==
    LET c == Checked(overlap) IN
    /\ checkpointIndex' = c.index
    /\ laps' = c.laps
    /\ ctrlLaps' = c.laps
    /\ checks' = c.index + 1
    /\ timer' = c.ctl.timer
    /\ storage' = c.ctl.storage
    /\ peer' = peer
    /\ lapDone' = IF c.laps > laps
                  THEN [events |-> lapDone.events + (IF c.taken THEN 1 ELSE 0),
                        running |-> c.ctl.timer.state = "play",
                        time |-> GetTime(c.ctl.timer, now),
                        trace |-> c.ctl.ghost.currentGhost,
                        ghostTime |-> c.ctl.ghost.lastGhostTime]
                  ELSE [lapDone EXCEPT !.events = @ + (IF c.taken THEN 1 ELSE 0)]
    /\ raceHist' = IF c.taken
                   THEN [raceHist EXCEPT !.fastest = MinTime(@, GetTime(timer, now))]
                   ELSE raceHist

\* One frame with the kart enabled, BruinKart.display: update_state(dt)
\* (kart.update and handleCheckpoints), then GUIController.handle
Display(dt, hits, overlap) ==
    /\ kartEnabled
    /\ bumps + Bounces(kart, keys, dt, hits) <= MaxCollisions
    /\ kart' = KartUpdate(kart, keys, dt, hits)
    /\ bumps' = bumps + Bounces(kart, keys, dt, hits)
    /\ HandleCheckpoints(overlap)
    /\ ghost' = Handle(Checked(overlap).ctl.ghost, worldReady, state,
                       Checked(overlap).ctl.timer, now, races)
    /\ escIgnored' = FALSE
    /\ UNCHANGED <<ctrlVars, now, keys>>

\* One frame with the kart disabled, BruinKart.display: update_state does
\* nothing, then GUIController.handle
IdleDisplay ==
    /\ ~kartEnabled
    /\ ghost' = Handle(ghost, worldReady, state, timer, now, races)
    /\ escIgnored' = FALSE
    /\ UNCHANGED <<ctrlVars, timer, now, progressVars, kart, keys, kartHist, storage, peer,
                   ghostHist>>

\* a frame of at most MaxLaps laps
Frame(dt, hits, overlap) ==
    /\ LapDone(checkpointIndex, overlap) => laps < MaxLaps
    /\ Display(dt, hits, overlap)

\* what a kart that keeps to the course and off the obstacles overlaps in a
\* frame: nothing, or the checkpoint it is heading for
OnCourse == {{}, {checkpointIndex}}

\* a frame of the game; the histories of the kart and checkpoint runs stay put
GameFrame(dt, hits, overlap) ==
    /\ Frame(dt, hits, overlap)
    /\ UNCHANGED <<lastOverlap, timerHist, idleTicks>>

\* a frame of the game with the kart disabled
GameIdleFrame == IdleDisplay /\ UNCHANGED <<lastOverlap, timerHist>>

\* ---------------------------------------------------------------- the game
\* the state the constructors of BruinKart and GUIController leave, whatever
\* localStorage holds
Constructed ==
    /\ state = "initial"
    /\ kartEnabled = FALSE
    /\ worldReady = TRUE
    /\ loading = FALSE
    /\ now = 0
    /\ timer = TimerPause(ResetTime(0), 0)
    /\ counters = << >>
    /\ listeners = MenuListeners
    /\ registered = MenuListeners
    /\ shapes = MenuShapes
    /\ selectedKart = "BruinKart"
    /\ selectedMap = "default"
    /\ checkpointIndex = 0
    /\ laps = 0
    /\ ctrlLaps = 0
    /\ checks = 0
    /\ kart = NewKart("BruinKart")
    /\ keys = {}
    /\ races = 0
    /\ lastOverlap = {}
    /\ ranMs = 0
    /\ wantPaused = TRUE
    /\ idleTicks = 0
    /\ bumps = 0
    /\ ghost = NewGhost
    /\ peer = EmptyObj
    /\ lapDone = NoLapDone
    /\ raceHist = NoRace
    /\ escIgnored = FALSE

\* the game in a browser that has stored nothing
Init == Constructed /\ storage = Absent

Next ==
    \/ PressP
    \/ PressEsc
    \/ PressE
    \/ LoadDone
    \/ \E i \in 1..MaxRaces : CounterTick(i)
    \/ GameAdvance(1)
    \/ \E overlap \in OnCourse : GameFrame(1, NoHits, overlap)
    \/ GameIdleFrame

Spec == Init /\ [][Next]_vars

\* ------------------------------------------------------- the Timer on its own
\* A Timer as its constructor leaves it, driven by calls of its methods while
\* the clock moves on.
InitTimer ==
    /\ state = "initial"
    /\ kartEnabled = FALSE
    /\ worldReady = TRUE
    /\ loading = FALSE
    /\ now = 0
    /\ timer = ResetTime(0)
    /\ counters = << >>
    /\ listeners = MenuListeners
    /\ registered = MenuListeners
    /\ shapes = MenuShapes
    /\ selectedKart = "BruinKart"
    /\ selectedMap = "default"
    /\ checkpointIndex = 0
    /\ laps = 0
    /\ ctrlLaps = 0
    /\ checks = 0
    /\ kart = NewKart("BruinKart")
    /\ keys = {}
    /\ races = 0
    /\ lastOverlap = {}
    /\ ranMs = 0
    /\ wantPaused = FALSE
    /\ idleTicks = 0
    /\ bumps = 0
    /\ ghost = NewGhost
    /\ storage = Absent
    /\ peer = EmptyObj
    /\ lapDone = NoLapDone
    /\ raceHist = NoRace
    /\ escIgnored = FALSE

\* a call of Timer.resetTime
CallResetTime ==
    /\ timer' = ResetTime(now)
    /\ ranMs' = 0
    /\ wantPaused' = FALSE
    /\ UNCHANGED <<ctrlVars, now, progressVars, lastOverlap, kart, keys, kartHist,
                   ghostVars, ghostHist, escIgnored>>

\* a call of Timer.pause
CallPause ==
    /\ timer' = TimerPause(timer, now)
    /\ wantPaused' = TRUE
    /\ UNCHANGED <<ctrlVars, now, progressVars, lastOverlap, kart, keys, kartHist, ranMs,
                   ghostVars, ghostHist, escIgnored>>

\* a call of Timer.unpause
CallUnpause ==
    /\ timer' = TimerUnpause(timer, now)
    /\ wantPaused' = FALSE
    /\ UNCHANGED <<ctrlVars, now, progressVars, lastOverlap, kart, keys, kartHist, ranMs,
                   ghostVars, ghostHist, escIgnored>>

\* Date.now() moves on by d; the history counts it unless a pause was asked for
ClockAdvance(d) ==
    /\ now + d <= MaxClock
    /\ now' = now + d
    /\ ranMs' = IF wantPaused THEN ranMs ELSE ranMs + d
    /\ UNCHANGED <<ctrlVars, timer, progressVars, lastOverlap, kart, keys, kartHist,
                   wantPaused,
                   ghostVars, ghostHist, escIgnored>>

NextTimer ==
    \/ CallResetTime
    \/ CallPause
    \/ CallUnpause
    \/ \E d \in 1..2 : ClockAdvance(d)

SpecTimer == InitTimer /\ [][NextTimer]_vars

\* --------------------------------------------------------- the kart on its own
\* The countdown of a race with kart type kt has run out: Racing.
Racing(kt) ==
    /\ state = "playing"
    /\ kartEnabled = TRUE
    /\ worldReady = TRUE
    /\ loading = FALSE
    /\ now = 0
    /\ timer = ResetTime(0)
    /\ counters = << [seconds |-> 0, live |-> FALSE, fired |-> CountdownSeconds,
                      calls |-> 1, interrupted |-> FALSE] >>
    /\ listeners = {"esc"}
    /\ registered = {"esc"}
    /\ shapes = HudShapes
    /\ selectedKart = kt
    /\ selectedMap = "default"
    /\ checkpointIndex = 0
    /\ laps = 0
    /\ ctrlLaps = 0
    /\ checks = 0
    /\ kart = NewKart(kt)
    /\ races = 1
    /\ lastOverlap = {}
    /\ ranMs = 0
    /\ wantPaused = FALSE
    /\ idleTicks = 0
    /\ bumps = 0
    /\ ghost = [NewGhost EXCEPT !.options.kart = kt]
    /\ storage = Absent
    /\ peer = EmptyObj
    /\ lapDone = NoLapDone
    /\ raceHist = NoRace
    /\ escIgnored = FALSE

\* document.onkeydown: keys[e.keyCode] = true
KeyDown(c) ==
    /\ c \notin keys
    /\ keys' = keys \cup {c}
    /\ UNCHANGED <<ctrlVars, timer, now, progressVars, lastOverlap, kart, timerHist,
                   kartHist,
                   ghostVars, ghostHist, escIgnored>>

\* document.onkeyup: keys[e.keyCode] = false
KeyUp(c) ==
    /\ c \in keys
    /\ keys' = keys \ {c}
    /\ UNCHANGED <<ctrlVars, timer, now, progressVars, lastOverlap, kart, timerHist,
                   kartHist,
                   ghostVars, ghostHist, escIgnored>>

\* update_state(dt) with the kart enabled: Kart.update(dt)
KartTick(dt, hits) ==
    /\ kartEnabled
    /\ bumps + Bounces(kart, keys, dt, hits) <= MaxCollisions
    /\ kart' = KartUpdate(kart, keys, dt, hits)
    /\ bumps' = bumps + Bounces(kart, keys, dt, hits)
    /\ UNCHANGED <<ctrlVars, timer, now, progressVars, lastOverlap, keys, timerHist,
                   ghostVars, ghostHist, escIgnored>>

\* a kart tick of the speed runs
SpeedTick(hits) == KartTick(1, hits) /\ UNCHANGED idleTicks

\* a kart tick of the turning runs, with the count of ticks in a row that saw
\* neither J nor L held nor a collision (counted up to DecayTicks)
TurnTick(hits) ==
    /\ KartTick(1, hits)
    /\ idleTicks' = IF (KeyJ \in keys) \/ (KeyL \in keys) \/ CountHits(hits) > 0 THEN 0
                    ELSE Min(idleTicks + 1, DecayTicks)

\* Speed: a race of each kart type, driven with I and K against the obstacles.
InitSpeed == keys = {} /\ \E kt \in KartTypes : Racing(kt)

NextSpeed ==
    \/ KeyDown(KeyI)
    \/ KeyDown(KeyK)
    \/ KeyUp(KeyI)
    \/ KeyUp(KeyK)
    \/ \E hits \in HitSeqs : SpeedTick(hits)

SpecSpeed == InitSpeed /\ [][NextSpeed]_vars

\* Turning: a race of each kart type in which the player holds J or L from the
\* start and lets go at some frame; no obstacle is touched.
InitTurn == keys \in {{KeyJ}, {KeyL}} /\ \E kt \in KartTypes : Racing(kt)

NextTurn ==
    \/ KeyUp(KeyJ)
    \/ KeyUp(KeyL)
    \/ TurnTick(NoHits)

SpecTurn == InitTurn /\ [][NextTurn]_vars

\* ------------------------------------------------------------ laps on their own
\* lastOverlap after a step that ran no frame
NoFrame == {NumCheckpoints}

\* Racing, frame after frame, while the clock moves on.
InitLaps == keys = {} /\ \E kt \in KartTypes : Racing(kt)

\* a frame of a race, with the checkpoint volumes it overlapped
LapsFrame(hits, overlap) ==
    /\ Frame(1, hits, overlap)
    /\ lastOverlap' = overlap
    /\ UNCHANGED <<timerHist, idleTicks>>

\* the clock moves on between two frames
LapsAdvance == Advance(1) /\ lastOverlap' = NoFrame

NextLaps ==
    \/ \E hits \in HitSeqs, overlap \in Overlaps : LapsFrame(hits, overlap)
    \/ LapsAdvance

SpecLaps == InitLaps /\ [][NextLaps]_vars

\* ------------------------------------------------------------------ claims
\* a countdown created by initGame has not yet called its callback
CountdownLive == \E i \in 1..Len(counters) : counters[i].live

\* C1: while a countdown is in progress the kart stays disabled, whatever Escape
\* presses interleave with the interval's ticks.
CountdownKeepsKartDisabled == CountdownLive => ~kartEnabled

\* C2: whenever the controller is "paused" the kart is disabled and the timer
\* is in its paused state.
PausedMeansFrozen == state = "paused" => (~kartEnabled /\ timer.state = "pause")

\* C3: whenever the controller is "initial" (the menu) the kart is disabled.
MenuKeepsKartDisabled == state = "initial" => ~kartEnabled

\* C4: no step taken while the track load is in flight or a countdown is still
\* running moves the controller to "paused".
NoPauseBeforeRacing ==
    [][(state # "paused" /\ (loading \/ CountdownLive)) => state' # "paused"]_vars

\* C5: a countdown that no listener interrupts fires three times; its first two
\* firings leave it pending with the callback uncalled, its third clears it and
\* calls the callback once, and at that step the kart is enabled, the timer
\* runs from 0 and the controller is "playing"; a cleared countdown never fires
\* or calls its callback again.
CountdownRunsOnce ==
    [][\A i \in 1..Len(counters) :
          LET c == counters[i]
              d == counters'[i]
          IN /\ ~c.live => d = c
             /\ (c.live /\ ~c.interrupted /\ d.fired = c.fired + 1) =>
                  IF d.fired = CountdownSeconds
                  THEN /\ ~d.live /\ c.calls = 0 /\ d.calls = 1 /\ d.seconds = 0
                       /\ kartEnabled'
                       /\ timer'.state = "play"
                       /\ GetTime(timer', now') = 0
                       /\ state' = "playing"
                  ELSE /\ d.live /\ d.calls = 0
                       /\ d.fired < CountdownSeconds
                       /\ d.seconds = CountdownSeconds - d.fired]_vars

\* C5 witness: an uninterrupted countdown has just called its callback, some
\* time after the race was set up.
CountdownRanOut ==
    /\ \E i \in 1..Len(counters) :
          counters[i].fired = CountdownSeconds /\ counters[i].calls = 1
          /\ ~counters[i].interrupted
    /\ kartEnabled /\ state = "playing" /\ timer.state = "play"
    /\ now > 0 /\ GetTime(timer, now) = 0

\* C6: getTime() is the time since the last reset less the time spent paused,
\* the timer is paused exactly when the last call asked for it, and so a
\* repeated pause() or unpause() changes nothing that getTime() shows.
TimerCountsRunningTime ==
    /\ GetTime(timer, now) = ranMs
    /\ (timer.state = "pause") = wantPaused

\* C6 witness: paused for a while, resumed, and running on from the old value.
TimerResumed ==
    /\ timer.state = "play"
    /\ timer.totalPausedMilliseconds > 0
    /\ ranMs > 0
    /\ now - timer.startTime > ranMs

\* C7: after every tick the velocity lies within [maxVelocityB, maxVelocityF].
VelocityClamped ==
    /\ maxVelocityB(kart.kartType) <= kart.velocity
    /\ kart.velocity <= maxVelocityF(kart.kartType)

\* C8: after every tick the heading lies in [0, 2*pi).
HeadingWrapped == 0 <= kart.angle /\ kart.angle < TwoPi

CheckpointsInOrder ==
    [][lastOverlap' # NoFrame =>
          LET hit == checkpointIndex \in lastOverlap' IN
          /\ ~hit => (checkpointIndex' = checkpointIndex /\ laps' = laps)
          /\ (hit /\ checkpointIndex < NumCheckpoints - 1) =>
                (checkpointIndex' = checkpointIndex + 1 /\ laps' = laps)
          /\ (hit /\ checkpointIndex = NumCheckpoints - 1) =>
                (checkpointIndex' = 0 /\ laps' = laps + 1)]_vars

\* C10 witness: the kart overlapped checkpoint 2 with the index at 0, and the
\* index is still 0.
SkippedAheadIgnored == lastOverlap = {2} /\ checkpointIndex = 0 /\ laps = 0

\* ------------------------------------------- a race abandoned, another begun
\* the clock moves on by FrameMs
RaceAdvance ==
    /\ now + FrameMs <= (MaxNow + 1) * FrameMs
    /\ ClockStep(FrameMs)
    /\ UNCHANGED lastOverlap

\* the trace of a lap that has been running for FrameMs, sampled at both readings
\* in race r
TwoSamples(r) == (Tenths(FrameMs) :> r) @@ (0 :> r)

\* A race of the BruinKart on either map, paused FrameMs into a lap: the first
\* lap, with no record for the pair (and nothing stored, or a record stored for
\* the other map), or the second, the first having set the record.
InitAbandon ==
    /\ state = "paused"
    /\ kartEnabled = FALSE
    /\ worldReady = TRUE
    /\ loading = FALSE
    /\ now = 0
    /\ timer = TimerPause(ResetTime(0 - FrameMs), 0)
    /\ counters = << [seconds |-> 0, live |-> FALSE, fired |-> CountdownSeconds,
                      calls |-> 1, interrupted |-> FALSE] >>
    /\ listeners = {"esc"}
    /\ registered = {"esc", "exit"}
    /\ shapes = HudShapes \o PauseShapes
    /\ selectedKart = "BruinKart"
    /\ selectedMap \in MapTypes
    /\ checkpointIndex = 0
    /\ laps \in {0, 1}
    /\ ctrlLaps = laps
    /\ checks = 1
    /\ kart = NewKart("BruinKart")
    /\ keys = {}
    /\ races = 0
    /\ lastOverlap = NoFrame
    /\ ranMs = 0
    /\ wantPaused = TRUE
    /\ idleTicks = 0
    /\ bumps = 0
    /\ escIgnored = FALSE
    /\ lapDone = NoLapDone
    /\ LET record == [bestTime |-> FrameMs, ghost |-> TwoSamples(0)]
           own == <<selectedKart, selectedMap>> :> record
           other == <<selectedKart, NextMapOf(selectedMap)>> :> record
       IN \E mem \in (IF laps = 1 THEN {own, own @@ other} ELSE {EmptyObj, other}) :
            /\ storage = (IF mem = EmptyObj THEN Absent ELSE Stringify(mem))
            /\ peer = EmptyObj
            /\ raceHist = [loaded |-> Infinity,
                           fastest |-> IF laps = 1 THEN FrameMs ELSE Infinity]
            /\ ghost = [bestTime |-> IF laps = 1 THEN FrameMs ELSE Infinity,
                        pastGhost |-> IF laps = 1 THEN TwoSamples(0) ELSE EmptyObj,
                        currentGhost |-> TwoSamples(0),
                        lastGhostTime |-> Tenths(FrameMs),
                        memory |-> mem,
                        options |-> [kart |-> selectedKart, world |-> selectedMap],
                        ghostPos |-> IF laps = 1 THEN 0 ELSE NullPos]

\* a frame of a kart that keeps to the course; it sits at the start line while
\* the track loads
RaceFrame(overlap) ==
    /\ loading => overlap = {}
    /\ Frame(1, NoHits, overlap)
    /\ lastOverlap' = overlap
    /\ UNCHANGED <<timerHist, idleTicks>>

\* a frame with the kart disabled
RaceIdleFrame == IdleDisplay /\ UNCHANGED <<lastOverlap, timerHist>>

NextRaces ==
    \/ PressE
    \/ PressK
    \/ PressM
    \/ PressP
    \/ LoadDone
    \/ \E i \in 1..(MaxRaces + 1) : CounterTick(i)
    \/ RaceAdvance
    \/ \E overlap \in OnCourse : RaceFrame(overlap)
    \/ RaceIdleFrame

SpecRaces == InitAbandon /\ [][NextRaces]_vars

\* C11: a frame in which the kart passes the last checkpoint with the index at
\* the last checkpoint counts one lap, returns the index to 0 and has
\* updateStatus take its lap-completed branch once; no other step takes it.
LapCompletedOnce ==
    [][/\ \A overlap \in OnCourse :
             (/\ RaceFrame(overlap)
              /\ checkpointIndex = NumCheckpoints - 1
              /\ checkpointIndex \in overlap)
             => (/\ laps' = laps + 1
                 /\ checkpointIndex' = 0
                 /\ lapDone'.events = lapDone.events + 1)
       /\ lapDone'.events # lapDone.events =>
             \E overlap \in OnCourse :
                /\ RaceFrame(overlap)
                /\ checkpointIndex = NumCheckpoints - 1
                /\ checkpointIndex \in overlap]_vars

\* C11 witness: the race begun after the abandoned one has completed its first
\* lap, counted once.
FirstLapCounted ==
    /\ races = 1 /\ laps = 1 /\ ctrlLaps = 1 /\ checkpointIndex = 0
    /\ lapDone.events = 1
    /\ lastOverlap = {NumCheckpoints - 1}

\* what localStorage holds for the pair being raced
Stored == LoadMemory(storage)
StoredHere == HasRecord(Stored, selectedKart, selectedMap)

\* C12: in a race, once the load is over, the best time is the least of the time
\* loaded at the start of the race and the times of the laps completed since; it
\* and pastGhost are what is stored for the pair being raced (nothing is stored
\* when there is no such time).  A completed lap strictly faster than the best
\* time stores its own time and trace; any other leaves the store as it was.
BestTimeIsMinimum ==
    [][/\ (state' # "initial" /\ ~loading') =>
             LET best == MinTime(raceHist'.loaded, raceHist'.fastest)
                 mem == LoadMemory(storage')
                 here == <<selectedKart', selectedMap'>>
             IN /\ ghost'.bestTime = best
                /\ (best = Infinity) = (here \notin DOMAIN mem)
                /\ best # Infinity =>
                      (mem[here] = [bestTime |-> best, ghost |-> ghost'.pastGhost])
       /\ laps' = laps + 1 =>
             LET lapTime == GetTime(timer, now)
                 here == <<selectedKart, selectedMap>>
             IN IF ghost.bestTime = Infinity \/ lapTime < ghost.bestTime
                THEN LoadMemory(storage')[here]
                        = [bestTime |-> lapTime, ghost |-> ghost.currentGhost]
                ELSE storage' = storage /\ ghost'.pastGhost = ghost.pastGhost]_vars

\* C12 witness: a lap faster than the loaded record has replaced it, the record
\* of the other map staying as it was.
RecordBeaten ==
    /\ races = 1 /\ laps = 1
    /\ raceHist.loaded = FrameMs /\ raceHist.fastest = 0
    /\ StoredHere /\ RecordOf(Stored, selectedKart, selectedMap).bestTime = 0
    /\ HasRecord(Stored, selectedKart, NextMapOf(selectedMap))

\* a countdown calls its callback in this step: the race proper begins
RaceBegins == \E i \in 1..Len(counters) : counters'[i].calls = counters[i].calls + 1

\* C13: when a lap attempt starts the active trace holds nothing of an earlier
\* attempt: when a race begins it holds no sample of an earlier race (what the
\* frames of the countdown sample at the start line is let pass), and when a
\* lap is completed updateStatus leaves it empty.
LapStartsWithFreshTrace ==
    [][/\ RaceBegins =>
             \A k \in DOMAIN ghost'.currentGhost : ghost'.currentGhost[k] = races'
       /\ laps' = laps + 1 => lapDone'.trace = EmptyObj]_vars

\* C14: every lap completion, record or not, leaves the timer running from
\* zero, the active trace empty and lastGhostTime at -1.
LapCompletionResets ==
    [][laps' = laps + 1 =>
          /\ lapDone'.running
          /\ lapDone'.time = 0
          /\ lapDone'.trace = EmptyObj
          /\ lapDone'.ghostTime = NoGhostTime
          /\ timer' = ResetTime(now)]_vars

\* C14 witness: a lap slower than the loaded record has been completed, and the
\* timer has been reset at that frame.
SlowLapCompleted ==
    /\ races = 1 /\ laps = 1 /\ lapDone.events = 1
    /\ raceHist.loaded = FrameMs /\ raceHist.fastest > FrameMs
    /\ ghost.bestTime = FrameMs
    /\ timer = ResetTime(now)

\* ------------------------------------------------------- the start of a race
\* What localStorage may hold when the page is opened: nothing, a string that
\* is no JSON, or the record of an earlier visit for one pair of kart and map.
StoredBefore ==
    {Absent, Corrupt,
     Stringify(<<"BruinKart", "default">> :> [bestTime |-> FrameMs, ghost |-> TwoSamples(0)]),
     Stringify(<<"Toad", "classic">> :> [bestTime |-> FrameMs, ghost |-> TwoSamples(0)])}

InitStart == Constructed /\ storage \in StoredBefore

\* The player picks a kart and a map and presses P, and presses no key of the
\* controller after that.
NextStart ==
    \/ PressK
    \/ PressM
    \/ PressP
    \/ LoadDone
    \/ \E i \in 1..MaxRaces : CounterTick(i)
    \/ RaceAdvance
    \/ \E overlap \in OnCourse : RaceFrame(overlap)
    \/ RaceIdleFrame

\* loadWorld's delay resolves and the interval of a live countdown keeps firing
SpecStart ==
    /\ InitStart
    /\ [][NextStart]_vars
    /\ WF_vars(LoadDone)
    /\ WF_vars(\E i \in 1..MaxRaces : CounterTick(i))

\* C15: with nothing stored, nothing stored for the selected pair, or a stored
\* string that cannot be parsed, the race goes on to its countdown with
\* bestTime = Infinity and an empty pastGhost, the Escape listener active.
MissingRecordIsNoRecord ==
    (state = "playing" /\ ~loading /\ ~StoredHere) =>
        /\ ghost.bestTime = Infinity
        /\ ghost.pastGhost = EmptyObj
        /\ Len(counters) = races
        /\ "esc" \in registered

\* the countdown of the race has run out and nothing has happened since
Started ==
    /\ state = "playing" /\ worldReady /\ ~loading /\ kartEnabled
    /\ Len(counters) = races /\ ~CountdownLive
    /\ timer.state = "play" /\ GetTime(timer, now) = 0

\* C18: once P is pressed, with stored data that can be parsed, the controller
\* reaches Racing: "playing", the world ready, the kart enabled and the timer
\* running from 0.
StartLeadsToRacing == (state = "playing" /\ loading /\ storage # Corrupt) ~> Started

\* C18 witness: a race of another kart than the default has reached Racing some
\* time after the page was opened.
RacingReached == Started /\ races = 1 /\ now > 0 /\ selectedKart = "Toad" /\ laps = 0

\* C16: when the load of a race is over, bestTime and pastGhost are the record
\* stored for the selected kart and map, or Infinity and the empty trace when
\* nothing is stored for that pair, whatever an earlier race left behind.
RaceLoadsItsOwnRecord ==
    [][(loading /\ ~loading') =>
          LET here == <<selectedKart, selectedMap>> IN
          IF here \in DOMAIN Stored
          THEN /\ ghost'.bestTime = Stored[here].bestTime
               /\ ghost'.pastGhost = Stored[here].ghost
          ELSE /\ ghost'.bestTime = Infinity
               /\ ghost'.pastGhost = EmptyObj]_vars

\* C16 witness: after a race that held a record was abandoned, a race on the
\* other map, which has none, has loaded and shows its countdown.
LoadedWithoutRecord ==
    /\ races = 1 /\ state = "playing" /\ ~loading /\ CountdownLive
    /\ ~StoredHere
    /\ HasRecord(Stored, selectedKart, NextMapOf(selectedMap))
    /\ ghost.bestTime = Infinity /\ ghost.pastGhost = EmptyObj

\* C17: in a race of a pair for which nothing is stored no ghost is shown:
\* ghostPos stays null from initGame on, until a lap of that race is completed
\* (which stores a record for the pair).
NoGhostWithoutRecord == (state # "initial" /\ ~StoredHere) => ghost.ghostPos = NullPos

\* C17 witness: a race of a pair without a record is under way, at a time for
\* which the record of the other map holds a sample, and no ghost is shown.
RacingWithoutGhost ==
    /\ races = 1 /\ state = "playing" /\ kartEnabled /\ ~loading
    /\ ~StoredHere
    /\ HasRecord(Stored, selectedKart, NextMapOf(selectedMap))
    /\ ghost.lastGhostTime = Tenths(FrameMs)
    /\ Tenths(FrameMs) \in DOMAIN RecordOf(Stored, selectedKart, NextMapOf(selectedMap)).ghost
    /\ ghost.ghostPos = NullPos

\* C19: an Escape press in the menu changes nothing: the state, the kart's
\* enabling, the timer and the listeners stay as they are, and no exit listener
\* is registered.
EscapeIgnoredInMenu ==
    [][(PressEsc /\ state = "initial") =>
          /\ UNCHANGED <<state, kartEnabled, timer, listeners, registered, shapes, counters,
                         ghost, storage>>
          /\ "exit" \notin registered']_vars

\* C19 witness: back in the menu after a race, Escape has just been pressed and
\* ignored.
MenuEscapeIgnored ==
    /\ escIgnored /\ state = "initial" /\ races = 1
    /\ registered = MenuListeners /\ timer.state = "pause"

\* C20: a tick with neither I nor K held and no collision brings the velocity
\* nearer to zero without crossing it: its sign does not flip, its size does
\* not grow, and a velocity of 0 stays 0.
CoastingStopsAtZero ==
    [][(SpeedTick(NoHits) /\ KeyI \notin keys /\ KeyK \notin keys) =>
          /\ kart.velocity > 0 => kart'.velocity >= 0
          /\ kart.velocity < 0 => kart'.velocity <= 0
          /\ Abs(kart'.velocity) <= Abs(kart.velocity)
          /\ kart.velocity = 0 => kart'.velocity = 0]_vars

\* C21: while the track load is in flight no frame runs Kart.update or
\* handleCheckpoints: the kart's velocity, turn rate, heading and push and the
\* race progress stay as they are until the load completes.
LoadFreezesKart == [][(loading /\ loading') => UNCHANGED <<kart, progressVars>>]_vars

\* C22: at the step where the countdown's callback enables the kart, the kart
\* is the one resetKart constructed: velocity 0, turn rate 0, heading 0, not
\* pushed off its starting position.
RaceStartsWithFreshKart == [][RaceBegins => kart' = NewKart(selectedKart)]_vars

\* C23: a frame that only draws the GUI (the kart disabled) inserts no sample in
\* currentGhost and leaves lastGhostTime alone while the countdown is running,
\* while the game is paused and in the menu.
SamplesOnlyWhileRacing ==
    [][(GameIdleFrame /\ (CountdownLive \/ state = "paused" \/ state = "initial"))
          => /\ ghost'.currentGhost = ghost.currentGhost
             /\ ghost'.lastGhostTime = ghost.lastGhostTime]_vars

\* what a step starts a lap attempt's trace from: nothing when updateStatus
\* completed a lap in the step, the trace so far otherwise
TraceBefore ==
    IF lapDone'.events # lapDone.events
    THEN [trace |-> EmptyObj, last |-> NoGhostTime]
    ELSE [trace |-> ghost.currentGhost, last |-> ghost.lastGhostTime]

PeerOptions == [kart |-> "Toad", world |-> "classic"]

\* the second session's initGame: loadMemory
PeerLoad ==
    /\ ~ParseThrows(storage)
    /\ peer' = LoadMemory(storage)
    /\ escIgnored' = FALSE
    /\ UNCHANGED <<ctrlVars, timer, now, progressVars, lastOverlap, kart, keys, timerHist,
                   kartHist, ghost, storage, ghostHist>>

\* the second session's updateStatus at the end of its first lap for its pair,
\* a lap of FrameMs: a new best, written with saveMemory
PeerLap ==
    /\ ~HasRecord(peer, PeerOptions.kart, PeerOptions.world)
    /\ LET c == UpdateStatus([ghost |-> [NewGhost EXCEPT !.memory = peer,
                                                          !.options = PeerOptions],
                              storage |-> storage, timer |-> ResetTime(0)],
                             1, 0, FrameMs)
       IN /\ storage' = c.storage
          /\ peer' = c.ghost.memory
    /\ escIgnored' = FALSE
    /\ UNCHANGED <<ctrlVars, timer, now, progressVars, lastOverlap, kart, keys, timerHist,
                   kartHist, ghost, ghostHist>>

\* Both sessions have loaded an empty store; this one races the BruinKart on the
\* default map.
InitShared == keys = {} /\ Racing("BruinKart")

NextShared ==
    \/ \E overlap \in OnCourse : LapsFrame(NoHits, overlap)
    \/ LapsAdvance
    \/ PeerLoad
    \/ PeerLap

SpecShared == InitShared /\ [][NextShared]_vars

\* C25: once each of two sessions on the same storage has set a best time for
\* its own pair, whatever the order of their loads and saves, the store holds
\* both records.
BothRecordsKept ==
    (HasRecord(ghost.memory, ghost.options.kart, ghost.options.world)
        /\ HasRecord(peer, PeerOptions.kart, PeerOptions.world))
    => /\ HasRecord(Stored, ghost.options.kart, ghost.options.world)
       /\ HasRecord(Stored, PeerOptions.kart, PeerOptions.world)

\* ------------------------------------------------- the kart among obstacles
\* A race of each kart type with I held from the start, alone or with J or L;
\* the ticks go on until the kart is MaxThrottle accelerations fast.
InitCrash == keys \in {{KeyI}, {KeyI, KeyJ}, {KeyI, KeyL}} /\ \E kt \in KartTypes : Racing(kt)

\* a kart tick among the obstacles
CrashTick(hits) ==
    /\ Abs(kart.velocity) < MaxThrottle * acceleration(kart.kartType)
    /\ SpeedTick(hits)

NextCrash == \E hits \in HitSeqs : CrashTick(hits)

SpecCrash == InitCrash /\ [][NextCrash]_vars

\* the kart as Kart.update hands it to handleCollisions: the kinematics done, the
\* body not yet moved by a response
Kinematics == [Rotate(UpdateUserInput(kart, keys), 1) EXCEPT !.push = 0]

\* C26: a tick in which the kart overlaps an obstacle at a speed below
\* 10 * slowDownSpeed only negates the turn rate: velocity, heading and body
\* position are what the kinematics step produced.
SlowOverlapTurnsBack ==
    [][\A hits \in HitSeqs :
          (CrashTick(hits) /\ CountHits(hits) > 0
              /\ Abs(Kinematics.velocity) < 10 * slowDownSpeed)
          => kart' = [Kinematics EXCEPT !.deltaAngle = 0 - Kinematics.deltaAngle]]_vars

\* C26 witness: the first tick of a kart steering left met an obstacle: the
\* turn rate is the negated first step, the speed the first acceleration, the
\* body where the kinematics put it.
TurnedBackAtLowSpeed ==
    /\ KeyJ \in keys /\ bumps = 0
    /\ kart.velocity = acceleration(kart.kartType)
    /\ kart.deltaAngle = 0 - shortDeltaAngle(kart.kartType)
    /\ kart.push = 0

\* the one obstacle of hits that the kart overlaps
TheHit(hits) == CHOOSE i \in 1..NumObstacles : hits[i] # "miss"

\* C27: a tick in which the kart overlaps exactly one obstacle at a speed v of
\* at least 10 * slowDownSpeed moves the body back along its heading by 2v/5,
\* and forward again by 4v/5 when the bodies still overlap, and leaves the
\* velocity at exactly -2v/5; turn rate and heading are untouched.
FastOverlapBounces ==
    [][\A hits \in HitSeqs :
          (CrashTick(hits) /\ CountHits(hits) = 1
              /\ Abs(Kinematics.velocity) >= 10 * slowDownSpeed)
          => LET v == Kinematics.velocity
             IN /\ 5 * kart'.velocity = 0 - 2 * v
                /\ 5 * kart'.push = IF hits[TheHit(hits)] = "stuck"
                                    THEN (0 - 2 * v) + 4 * v
                                    ELSE 0 - 2 * v
                /\ kart'.deltaAngle = Kinematics.deltaAngle
                /\ kart'.angle = Kinematics.angle]_vars

\* C27 witness: a kart driving forward has bounced off an obstacle it still
\* overlapped after the push back: it now moves backward, its body ahead of
\* where the kinematics put it.
BouncedAndPushedForward == bumps = 1 /\ kart.velocity < 0 /\ kart.push > 0

\* C28: every tick answers every obstacle the kart overlaps, whichever branch
\* an earlier one took: at a speed below 10 * slowDownSpeed, where no response
\* changes the velocity, each overlapping obstacle negates the turn rate once,
\* so an even number of them leaves it as the kinematics step produced it.
EveryOverlapAnswered ==
    [][\A hits \in HitSeqs :
          (CrashTick(hits) /\ CountHits(hits) > 0
              /\ Abs(Kinematics.velocity) < 10 * slowDownSpeed)
          => kart'.deltaAngle = IF CountHits(hits) % 2 = 0
                                THEN Kinematics.deltaAngle
                                ELSE 0 - Kinematics.deltaAngle]_vars

\* Racing: the countdown is over, the kart enabled, the timer running
RacingNow ==
    /\ state = "playing" /\ kartEnabled /\ worldReady /\ ~loading /\ ~CountdownLive
    /\ timer.state = "play"

\* the pause menu, entered from Racing
PausedFromRacing ==
    /\ state = "paused" /\ ~kartEnabled /\ worldReady /\ ~loading /\ ~CountdownLive
    /\ timer.state = "pause"

\* a step leaves the kart, the race progress, both traces and the best time alone
RaceKept ==
    /\ UNCHANGED <<kart, checkpointIndex, laps>>
    /\ ghost'.currentGhost = ghost.currentGhost
    /\ ghost'.pastGhost = ghost.pastGhost
    /\ ghost'.bestTime = ghost.bestTime

\* C29: pausing while Racing and unpausing is a round trip.  The Escape press
\* that pauses overlays the pause shapes and registers the exit listener; while
\* the pause lasts nothing moves; the Escape press that unpauses gives "playing",
\* the kart enabled, the timer running, the shape list without the overlay and
\* no exit listener; and none of the three touches the kart's velocity, turn
\* rate, heading and position, checkpointIndex, laps, currentGhost, pastGhost or
\* bestTime.
PauseIsRoundTrip ==
    [][/\ (RacingNow /\ PressEsc)
            => /\ PausedFromRacing'
               /\ shapes' = shapes \o PauseShapes
               /\ "exit" \in registered'
               /\ RaceKept
       /\ (PausedFromRacing /\ state' = "paused")
            => (PausedFromRacing' /\ UNCHANGED <<shapes, registered>> /\ RaceKept)
       /\ (PausedFromRacing /\ PressEsc)
            => /\ RacingNow'
               /\ shapes' \o PauseShapes = shapes
               /\ "exit" \notin registered'
               /\ RaceKept]_vars

\* C29 witness: a race that no key press disturbed during its countdown has been
\* paused for a while and unpaused: Racing again, with the race's own shapes.
Unpaused ==
    /\ RacingNow /\ races = 1 /\ timer.totalPausedMilliseconds > 0
    /\ \A i \in 1..Len(counters) : ~counters[i].interrupted
    /\ shapes = HudShapes /\ "exit" \notin registered

\* C30: the exit listener is registered exactly while the controller is
\* "paused"; an E press in any other state changes nothing; an E press while
\* paused leads in that one step to "initial" (never through "playing"), with
\* the exit listener and the race's Escape listener removed: what stays
\* registered is the menu's own listeners.
ExitOnlyFromPause ==
    [][/\ ("exit" \in registered') = (state' = "paused")
       /\ (PressE /\ state # "paused")
            => UNCHANGED <<ctrlVars, timer, now, progressVars, kart, keys, ghostVars>>
       /\ (PressE /\ state = "paused")
            => /\ state' = "initial"
               /\ "exit" \notin registered'
               /\ registered' = MenuListeners /\ listeners' = MenuListeners]_vars

\* C30 witness: E has taken a paused race back to the menu.
ExitedToMenu ==
    /\ state = "initial" /\ races = 1 /\ ~kartEnabled /\ ~escIgnored
    /\ registered = MenuListeners /\ shapes = MenuShapes
    /\ \E i \in 1..Len(counters) : counters[i].calls = 1

\* C31: a frame drawn while the controller is "playing" with the world ready
\* (Racing included) whose elapsed time, rounded to tenths, is a key of
\* pastGhost calls displayGhostAt with the pose stored under that key; ghostPos
\* changes only to a pose of the current pastGhost, or to null when initGame
\* runs loadWorld.
GhostShownFromRecord ==
    [][/\ ((RaceIdleFrame \/ \E overlap \in OnCourse : RaceFrame(overlap))
              /\ state = "playing" /\ worldReady
              /\ Tenths(GetTime(timer', now')) \in DOMAIN ghost'.pastGhost)
            => ghost'.ghostPos = ghost'.pastGhost[Tenths(GetTime(timer', now'))]
       /\ ghost'.ghostPos # ghost.ghostPos
            => \/ ghost'.ghostPos = NullPos /\ ~loading /\ loading'
               \/ \E k \in DOMAIN ghost'.pastGhost :
                      /\ ghost'.ghostPos = ghost'.pastGhost[k]
                      /\ k = Tenths(GetTime(timer', now'))]_vars

\* C31 witness: a race of a pair with a record is under way, at a time the
\* record holds a sample for, and the ghost is shown at that sample's pose.
GhostShown ==
    /\ races = 1 /\ RacingNow /\ StoredHere
    /\ ghost.ghostPos # NullPos
    /\ Tenths(GetTime(timer, now)) \in DOMAIN ghost.pastGhost
    /\ ghost.ghostPos = ghost.pastGhost[Tenths(GetTime(timer, now))]

\* C32: in a frame the ghost sample is taken before the lap-completion handling:
\* the frame that completes a lap ends with what that handling leaves, the
\* active trace empty and lastGhostTime at -1, the frame's sample having gone
\* into the trace the handling compared and reset.
SampleBeforeLapHandling ==
    [][\A overlap \in Overlaps :
          (LapsFrame(NoHits, overlap) /\ laps' = laps + 1)
          => /\ ghost'.currentGhost = EmptyObj
             /\ ghost'.lastGhostTime = NoGhostTime]_vars

\* C33: initGame starts every race at checkpoint 0 and lap 0, whatever the race
\* before had reached, and every frame that draws the HUD of the race ("playing",
\* the world ready) shows a lap count equal to BruinKart.laps.
ProgressResetOnStart ==
    [][/\ PressP => (checkpointIndex' = 0 /\ laps' = 0)
       /\ ((RaceIdleFrame \/ \E overlap \in OnCourse : RaceFrame(overlap))
              /\ state = "playing" /\ worldReady)
            => ctrlLaps' = laps']_vars

\* C34: between frames, so at the start of every handleCheckpoints call,
\* 0 <= checkpointIndex < checkpoints.length (the index equals the length only
\* inside the call), and within a race no step lowers laps.
IndexInRange ==
    /\ [](checkpointIndex \in Checkpoints)
    /\ [][races' = races => laps' >= laps]_vars

\* C34 witness: the frame that overlapped the last checkpoint of the new race
\* has counted a lap and put the index back to 0.
WrappedToStart ==
    /\ races = 1 /\ state = "playing" /\ kartEnabled
    /\ lastOverlap = {NumCheckpoints - 1}
    /\ checkpointIndex = 0 /\ laps = 1

\* C35: at most one countdown is live at any time, and a countdown calls its
\* callback only for the race under way: it is the countdown initGame created
\* last, and the controller has not gone back to the menu.
OneCountdownAtATime ==
    /\ [](Cardinality({i \in 1..Len(counters) : counters[i].live}) <= 1)
    /\ [][\A i \in 1..Len(counters) :
             counters'[i].calls = counters[i].calls + 1
             => (i = Len(counters) /\ state # "initial")]_vars

\* C36: options always names the selected kart and map; the selection changes
\* only in the menu; so whenever the store is written, the record is written
\* for the selected pair, the one whose record initGame loaded, and holds the
\* controller's best time.
OptionsFollowSelection ==
    /\ [](ghost.options = [kart |-> selectedKart, world |-> selectedMap])
    /\ [][/\ (selectedKart' # selectedKart \/ selectedMap' # selectedMap)
                => (state = "initial" /\ state' = "initial")
          /\ storage' # storage
                => /\ UNCHANGED <<selectedKart, selectedMap>>
                   /\ HasRecord(LoadMemory(storage'), selectedKart, selectedMap)
                   /\ RecordOf(LoadMemory(storage'), selectedKart, selectedMap).bestTime
                         = ghost'.bestTime]_vars

\* C36 witness: with a record stored for either map, the race begun after the
\* menu has stored a lap of its own for the selected pair.
SavedUnderSelection ==
    /\ races = 1 /\ laps = 1 /\ StoredHere
    /\ HasRecord(Stored, selectedKart, NextMapOf(selectedMap))
    /\ \E k \in DOMAIN RecordOf(Stored, selectedKart, selectedMap).ghost :
           RecordOf(Stored, selectedKart, selectedMap).ghost[k] = 1

\* C37: within one session a save touches the record of the pair being raced
\* only: for every other pair the store holds after the save exactly the record
\* it held before, which is the one initGame loaded, and no record of another
\* pair appears or goes.
OtherRecordsKept ==
    [][storage' # storage =>
          \A p \in (DOMAIN Stored \cup DOMAIN LoadMemory(storage'))
                      \ {<<selectedKart, selectedMap>>} :
              /\ p \in DOMAIN Stored
              /\ p \in DOMAIN LoadMemory(storage')
              /\ LoadMemory(storage')[p] = Stored[p]
              /\ p \in DOMAIN ghost.memory /\ ghost.memory[p] = Stored[p]]_vars

\* C37 witness: the new race has stored a lap of its own while the record of
\* the other map is the one the store held from the start.
OtherRecordSurvived ==
    /\ races = 1 /\ lapDone.events >= 1 /\ StoredHere
    /\ RecordOf(Stored, selectedKart, selectedMap).ghost = ghost.pastGhost
    /\ \E k \in DOMAIN ghost.pastGhost : ghost.pastGhost[k] = 1
    /\ HasRecord(Stored, "BruinKart", NextMapOf(selectedMap))
    /\ RecordOf(Stored, "BruinKart", NextMapOf(selectedMap))
          = [bestTime |-> FrameMs, ghost |-> TwoSamples(0)]

====
